---- MODULE Spec2Model ----
(***************************************************************************)
(* The command-tree evaluator of Mini-Shell (src/cmd.c) as a system of     *)
(* Unix processes.  Every process has a call stack with one frame per     *)
(* active parse_command call (parse_simple, parse_simple_external,        *)
(* run_in_parallel and run_on_pipe run in the frame of the node they      *)
(* evaluate), a descriptor table, and an entry in the process table.      *)
(* fork copies the caller's stack and descriptor table; exit turns the    *)
(* process into a zombie until its parent waits for it.                   *)
(*                                                                         *)
(* The command tree is the parser's output.  A part of it the evaluator   *)
(* has not dereferenced yet is Unread; parse_command draws the node when  *)
(* it first reads c->op, so that every tree within the bounds is covered. *)
(***************************************************************************)
EXTENDS Integers, Sequences, FiniteSets, TLC

VARIABLES
    pstate,     \* process table: "free", "run" or "zombie" per pid
    ppid,       \* parent of each process, 0 for none / adopted by init
    wstatus,    \* wait status of a zombie, as waitpid reports it
    stack,      \* call stack of each process
    fdt,        \* descriptor table of each process
    pipes,      \* bytes buffered in each pipe
    files,      \* contents of the files of the file system
    opsLeft,    \* operator nodes the unread part of the tree may still hold
    faults,     \* resource errors and signals so far in this run (capped)
    nproc,      \* the limit on the number of processes (RLIMIT_NPROC)
    cwd,        \* working directory of each process
    anc         \* history: the live ancestors of each process

vars == <<pstate, ppid, wstatus, stack, fdt, pipes, files, opsLeft, faults, nproc, cwd, anc>>

(***************************** bounds **************************************)
MaxOps == 2
MaxProcs == 4
MaxFd == 8
MaxPipes == 2
MaxLen == 2
PipeCap == 1
MaxFaults == 1
\* the platform's limit on the length of a path, scaled down
PATH_MAX == 6

(**************************** constants ************************************)
READ == 0
WRITE == 1
STDIN_FILENO == 0
STDOUT_FILENO == 1
STDERR_FILENO == 2
EXIT_FAILURE == 1
SHELL_EXIT == -100

\* the slots of the process table
Pids == 1 .. (MaxProcs + 1)
Shell == 1
Fds == 0 .. (MaxFd - 1)
PipeIds == 1 .. MaxPipes
Bytes == {"a", "b"}
FileNames == {"f", "g"}

\* path names are sequences of characters; the directories that exist
Dirs == {<<"/">>, <<"/", "s">>, <<"/", "a">>, <<"/", "a", "/", "s">>,
         <<"/", "a", "/", "s", "/", "t">>}
\* the working directory the shell is started in
StartDir == <<"/", "a">>

(************************ the command tree *********************************)
OP_NONE == "OP_NONE"
OP_SEQUENTIAL == "OP_SEQUENTIAL"
OP_PARALLEL == "OP_PARALLEL"
OP_CONDITIONAL_NZERO == "OP_CONDITIONAL_NZERO"
OP_CONDITIONAL_ZERO == "OP_CONDITIONAL_ZERO"
OP_PIPE == "OP_PIPE"
Operators == {OP_SEQUENTIAL, OP_PARALLEL, OP_CONDITIONAL_NZERO,
              OP_CONDITIONAL_ZERO, OP_PIPE}

NULL == "NULL"
Unread == [op |-> "?"]
\* a simple command: verb, parameters (for a program that writes: what it
\* writes), the redirection targets in, out, err and the append bits of io_flags
LeafIO(verb, arg, in, out, err, io_flags) ==
    [op |-> OP_NONE, verb |-> verb, arg |-> arg, in |-> in, out |-> out, err |-> err,
     io_flags |-> io_flags]
\* a simple command with at most an output target
Leaf(verb, arg, out) == LeafIO(verb, arg, NULL, out, NULL, {})
Node(op, cmd1, cmd2) == [op |-> op, cmd1 |-> cmd1, cmd2 |-> cmd2]

\* verbs of the leaves the evaluator may find in an unread part of the tree:
\* no verb, the quit built-in, an assignment, an external program
Verbs == {NULL, "exit", "X=1", "prog"}
QuitVerbs == {"exit", "quit"}
BuiltinVerbs == {"cd", "pwd"}
AssignVerbs == {"X=1"}

\* a path that cannot be opened: no such file, and no directory to create it in
NoEntry == "nodir/x"
\* the values of io_flags: no bit, or one of the append bits
IoFlags == {{}, {"IO_OUT_APPEND"}, {"IO_ERR_APPEND"}}
InTargets == {NULL, "f", NoEntry}
OutTargets == {NULL, "f", "g", NoEntry}
\* parameters of cd: none, relative, absolute, missing, too long for PATH_MAX
\* when appended to StartDir
CdArgs == {<<>>, <<"s">>, <<"x">>, <<"/">>, <<"/", "s">>, <<"s", "/", "t">>}
\* cd with a parameter and no redirection; cd, pwd and a program that writes
\* one byte, with every combination of redirections
IoLeaves ==
    {Leaf("cd", a, NULL) : a \in CdArgs}
    \cup {LeafIO(v[1], v[2], in, out, err, io_flags) :
            v \in {<<"cd", <<>>>>, <<"pwd", <<>>>>, <<"echo", <<"a">>>>},
            in \in InTargets, out \in OutTargets, err \in OutTargets, io_flags \in IoFlags}

\* what parse_command may find when it dereferences c
ReadNode(c) ==
    IF c.op # "?" THEN {c}
    ELSE {Leaf(v, <<>>, NULL) : v \in Verbs}
         \cup (IF opsLeft > 0 THEN {Node(o, Unread, Unread) : o \in Operators}
               ELSE {})

Spend(c, n) == IF c.op = "?" /\ n.op # OP_NONE THEN opsLeft - 1 ELSE opsLeft

(************************ wait statuses ************************************)
\* the status word of waitpid (Linux encoding) and the macros cmd.c applies
Exited(code) == (code % 256) * 256
Signaled(sig) == sig
WIFEXITED(s) == (s % 128) = 0
WIFSTOPPED(s) == (s % 256) = 127
WSTOPSIG(s) == (s \div 256) % 256

(************************ descriptors and pipes ****************************)
NoFile == [k |-> "none", n |-> 0]
Tty == [k |-> "tty", n |-> 0]
PipeEnd(e, id) == [k |-> IF e = READ THEN "r" ELSE "w", n |-> id]
FileOf(name) == [k |-> name, n |-> 0]
NoFds == [fd \in Fds |-> NoFile]
StdFds == [fd \in Fds |-> IF fd <= STDERR_FILENO THEN Tty ELSE NoFile]

FreeFds(tbl) == {fd \in Fds : tbl[fd] = NoFile}
LowestFree(tbl) == CHOOSE fd \in FreeFds(tbl) : \A g \in FreeFds(tbl) : fd <= g
Holds(tbl, f) == \E fd \in Fds : tbl[fd] = f
Referenced(tables, id) ==
    \E p \in Pids : Holds(tables[p], PipeEnd(READ, id)) \/ Holds(tables[p], PipeEnd(WRITE, id))
\* some process holds a read end, a write end, of the pipe
HasReader(id) == \E p \in Pids : Holds(fdt[p], PipeEnd(READ, id))
HasWriter(id) == \E p \in Pids : Holds(fdt[p], PipeEnd(WRITE, id))
FreePipes == {id \in PipeIds : ~Referenced(fdt, id)}
\* a pipe nobody refers to any more loses its buffer
Sweep(tables, bufs) == [id \in PipeIds |-> IF Referenced(tables, id) THEN bufs[id] ELSE <<>>]

Close(tbl, fd) == IF fd \in Fds THEN [tbl EXCEPT ![fd] = NoFile] ELSE tbl
Dup2(tbl, old, new) == [tbl EXCEPT ![new] = tbl[old]]

(************************ processes and frames *****************************)
Frame(c) ==
    [c |-> c, pc |-> "entry", pid1 |-> 0, pid2 |-> 0, pipefd |-> <<-1, -1>>,
     status1 |-> 0, status2 |-> 0, state |-> 0, ret1 |-> 0, ok |-> FALSE,
     result |-> 0,
     io |-> 0,          \* a program's position in its output (or input file)
     buf |-> <<>>,      \* a program's buffer: bytes read and not yet written
     ev |-> <<>>,       \* history: the children evaluated, with their statuses
     kids |-> {},       \* history: the processes this call spawned
     reaped |-> {},     \* history: the children this call reaped, and how they ended
     err |-> FALSE,     \* history: a pipe, fork or waitpid of this call failed
     log |-> <<>>,      \* history: the calls file_operations made for this leaf
     out |-> -1,        \* a built-in's duplicate of stdout
     err2 |-> -1,       \* a built-in's duplicate of stderr (int err)
     path |-> <<>>,     \* pwd: the result of getcwd
     fds0 |-> <<>>,     \* history: the descriptor table when a built-in began
     cwd0 |-> <<>>]     \* history: the working directory when a built-in began

Running(p) == pstate[p] = "run" /\ stack[p] # <<>>
Top(p) == stack[p][Len(stack[p])]
Caller(p) == stack[p][Len(stack[p]) - 1]
At(p, pc) == Running(p) /\ Top(p).pc = pc
\* the callee on top has returned to a caller waiting at pc
Returned(p, pc) ==
    /\ pstate[p] = "run"
    /\ Len(stack[p]) >= 2
    /\ Top(p).pc = "return"
    /\ Caller(p).pc = pc
SetTop(p, f) == [stack EXCEPT ![p] = [@ EXCEPT ![Len(@)] = f]]
\* pop the callee, continue the caller as f
PopTo(p, f) == [stack EXCEPT ![p] = Append(SubSeq(@, 1, Len(@) - 2), f)]
\* pop the callee, continue the caller as f, call parse_command(c)
PopCall(p, f, c) == [stack EXCEPT ![p] = SubSeq(@, 1, Len(@) - 2) \o <<f, Frame(c)>>]
Logged(f, i, r) == [f EXCEPT !.ev = Append(@, <<i, r>>)]

\* the environment may still make a call fail (or send a signal) in this run
MayFail == faults < MaxFaults
Fault == IF faults < MaxFaults THEN faults + 1 ELSE faults
\* a call that fails only for want of resources: TRUE is success
CallOutcomes == IF MayFail THEN {TRUE, FALSE} ELSE {TRUE}

IsChild(q, p) == pstate[q] # "free" /\ ppid[q] = p
\* the slots fork may use: none once nproc processes exist
FreePids ==
    IF Cardinality({q \in Pids : pstate[q] # "free"}) >= nproc THEN {}
    ELSE {q \in Pids : pstate[q] = "free"}
\* fork: -1, or the pid of the child (the lowest free slot of the table)
ForkOutcomes ==
    (IF MayFail \/ FreePids = {} THEN {-1} ELSE {})
    \cup (IF FreePids = {} THEN {}
          ELSE {CHOOSE q \in FreePids : \A r \in FreePids : q <= r})

Init ==
    /\ pstate = [p \in Pids |-> IF p = Shell THEN "run" ELSE "free"]
    /\ ppid = [p \in Pids |-> 0]
    /\ wstatus = [p \in Pids |-> 0]
    /\ stack = [p \in Pids |-> IF p = Shell THEN <<Frame(Unread)>> ELSE <<>>]
    /\ fdt = [p \in Pids |-> IF p = Shell THEN StdFds ELSE NoFds]
    /\ pipes = [id \in PipeIds |-> <<>>]
    /\ files = [f \in FileNames |-> <<>>]
    /\ opsLeft = MaxOps
    /\ faults = 0
    /\ nproc = MaxProcs
    /\ cwd = [p \in Pids |-> StartDir]
    /\ anc = [p \in Pids |-> {}]

procVars == <<pstate, ppid, wstatus, cwd, anc>>
ioVars == <<fdt, pipes, files>>

(************************ process primitives *******************************)
\* exit(code) or death by a signal: the descriptors are closed, the children
\* are adopted (and reaped) by init, the process stays a zombie for its parent.
\* (A zombie keeps its last stack, as a record of how it ended: see Ended.)
Terminate(q, ws) ==
    /\ pstate' = [r \in Pids |->
          IF r = q THEN (IF ppid[q] = 0 THEN "free" ELSE "zombie")
          ELSE IF ppid[r] = q /\ pstate[r] = "zombie" THEN "free"
          ELSE pstate[r]]
    /\ ppid' = [r \in Pids |-> IF ppid[r] = q THEN 0 ELSE ppid[r]]
    /\ wstatus' = [r \in Pids |->
          IF r = q THEN (IF ppid[q] = 0 THEN 0 ELSE ws)
          ELSE IF ppid[r] = q THEN 0
          ELSE wstatus[r]]
    /\ stack' = [r \in Pids |-> IF pstate'[r] = "free" THEN <<>> ELSE stack[r]]
    /\ cwd' = [r \in Pids |-> IF pstate'[r] = "run" THEN cwd[r] ELSE StartDir]
    /\ anc' = [r \in Pids |-> IF pstate'[r] = "free" THEN {}
                               ELSE {a \in anc[r] : pstate'[a] # "free"}]
    /\ fdt' = [fdt EXCEPT ![q] = NoFds]
    /\ pipes' = Sweep(fdt', pipes)

\* fork(): the child q gets a copy of the descriptor table and continues on
\* childStack; the parent continues on parentStack
Spawn(p, q, parentStack, childStack) ==
    /\ pstate' = [pstate EXCEPT ![q] = "run"]
    /\ ppid' = [ppid EXCEPT ![q] = p]
    /\ cwd' = [cwd EXCEPT ![q] = cwd[p]]
    /\ anc' = [anc EXCEPT ![q] = anc[p] \cup {p}]
    /\ fdt' = [fdt EXCEPT ![q] = fdt[p]]
    /\ stack' = [stack EXCEPT ![p] = parentStack, ![q] = childStack]
    /\ UNCHANGED <<wstatus, pipes>>

\* the frames below the top one
Below(p) == SubSeq(stack[p], 1, Len(stack[p]) - 1)
\* the copy of frame f a forked child runs on: it has spawned nothing itself
ChildFrame(f) == [f EXCEPT !.kids = {}, !.reaped = {}, !.err = FALSE, !.log = <<>>]

\* waitpid(pid, &status, 0): -1 (no such child, or interrupted), or the pid of
\* a terminated child it reaps; pid = -1 asks for any child.  It blocks while
\* the children asked for are all running.
Awaited(p, pid) == {q \in Pids : IsChild(q, p) /\ (pid = -1 \/ q = pid)}
WaitOutcomes(p, pid) ==
    (IF MayFail \/ Awaited(p, pid) = {} THEN {-1} ELSE {})
    \cup {q \in Awaited(p, pid) : pstate[q] = "zombie"}
\* history: how the zombie q ended: its wait status, and the status its
\* parse_command call returned if it ended by exit(parse_command(...))
Ended(q) ==
    LET evald == /\ Len(stack[q]) >= 2
                 /\ Top(q).pc = "return"
                 /\ Caller(q).pc \in {"rip_exit", "rop_exit"}
    IN  [pid |-> q, ws |-> wstatus[q], evald |-> evald,
         ret |-> IF evald THEN Top(q).result ELSE 0]
\* p reaps q and continues as f
Reap(p, q, f) ==
    /\ pstate' = [pstate EXCEPT ![q] = "free"]
    /\ ppid' = [ppid EXCEPT ![q] = 0]
    /\ wstatus' = [wstatus EXCEPT ![q] = 0]
    /\ anc' = [r \in Pids |-> IF r = q THEN {} ELSE anc[r] \ {q}]
    /\ UNCHANGED cwd
    /\ stack' = [SetTop(p, f) EXCEPT ![q] = <<>>]

(************************ parse_simple *************************************)
\* the status of a leaf that needs no process: no verb, exit/quit, assignment
SimpleResults(verb) ==
    IF verb = NULL THEN {-1}
    ELSE IF verb \in QuitVerbs THEN {SHELL_EXIT}
    ELSE IF verb \in AssignVerbs THEN (IF MayFail THEN {0, -1} ELSE {0})
    ELSE {}

ParseSimple(p) ==
    /\ At(p, "entry")
    /\ UNCHANGED nproc
    /\ \E n \in ReadNode(Top(p).c) :
         /\ n.op = OP_NONE
         /\ \E r \in SimpleResults(n.verb) :
              /\ stack' = SetTop(p, [Top(p) EXCEPT !.c = n, !.result = r, !.pc = "return"])
              /\ faults' = IF n.verb \in AssignVerbs /\ r # 0 THEN Fault ELSE faults
    /\ UNCHANGED <<procVars, ioVars, opsLeft>>

\* parse_simple_external: fork
ParseSimpleExternal(p) ==
    /\ At(p, "entry")
    /\ UNCHANGED nproc
    /\ \E n \in ReadNode(Top(p).c), q \in ForkOutcomes :
         /\ n.op = OP_NONE
         /\ SimpleResults(n.verb) = {}
         /\ n.verb \notin BuiltinVerbs
         /\ IF q = -1
            THEN /\ stack' = SetTop(p, [Top(p) EXCEPT !.c = n, !.pid1 = -1, !.err = TRUE,
                                           !.result = -1, !.pc = "return"])
                 /\ faults' = Fault
                 /\ UNCHANGED <<procVars, fdt, pipes>>
            ELSE /\ Spawn(p, q,
                       Append(Below(p), [Top(p) EXCEPT !.c = n, !.pid1 = q,
                                            !.kids = {q}, !.pc = "ext_wait"]),
                       Append(Below(p), [ChildFrame(Top(p)) EXCEPT !.c = n,
                                            !.pid1 = 0, !.pc = "ext_child"]))
                 /\ UNCHANGED faults
    /\ UNCHANGED <<files, opsLeft>>

\* a status that takes a child killed by a signal for a success
ExitCodeOrZero(state) == IF WIFEXITED(state) THEN WSTOPSIG(state) ELSE 0

\* the status parse_simple_external returns for a reaped child
ExternalStatus(state) == IF WIFEXITED(state) THEN WSTOPSIG(state) ELSE -1

\* how a program that does no input or output ends: exit status 0 or 1, or a signal
ProgramEnds == {Exited(0), Exited(1)} \cup (IF MayFail THEN {Signaled(9)} ELSE {})

\* what the environment may do to the calls of one step: nothing, or make one
\* of them fail
Failures(calls) == {"none"} \cup (IF MayFail THEN calls ELSE {})

(************************ file_operations ***********************************)
\* the calls of file_operations that may fail for want of resources
IoCalls(s) ==
    (IF s.in # NULL THEN {"open_in", "dup2_in"} ELSE {})
    \cup (IF s.out # NULL THEN {"open_out", "dup2_out"} ELSE {})
    \cup (IF s.err # NULL /\ s.err # s.out THEN {"open_err"} ELSE {})
    \cup (IF s.err # NULL THEN {"dup2_err"} ELSE {})

\* The state file_operations works on: the descriptor table, the files, and a
\* history of the calls made: <<"open", path, fd, flags>>, <<"dup2", old, new, ok>>,
\* <<"close", fd>>.  fd is the result of the last open.
IoState(tbl, fls) == [fds |-> tbl, files |-> fls, log |-> <<>>, fd |-> -1]

\* the value of a singleton (used to name an intermediate state once)
The(S) == CHOOSE x \in S : TRUE

\* open(path, flags): -1 or the lowest free descriptor; O_TRUNC empties the
\* file.  get_word of an absent target yields no path, and the open fails.
DoOpen(st0, path, flags, bad) ==
    The({IF bad \/ path \notin FileNames \/ FreeFds(st.fds) = {}
         THEN [st EXCEPT !.fd = -1, !.log = Append(@, <<"open", path, -1, flags>>)]
         ELSE LET fd == LowestFree(st.fds)
              IN  [fds |-> [st.fds EXCEPT ![fd] = FileOf(path)],
                   files |-> IF flags = "O_TRUNC" THEN [st.files EXCEPT ![path] = <<>>]
                             ELSE st.files,
                   log |-> Append(st.log, <<"open", path, fd, flags>>),
                   fd |-> fd] : st \in {st0}})

\* dup2(old, new) succeeds if old is an open descriptor
Dup2Ok(st, old, bad) == ~bad /\ old \in Fds /\ st.fds[old] # NoFile
DoDup2(st0, old, new, bad) ==
    The({[st EXCEPT !.fds = IF Dup2Ok(st, old, bad) THEN Dup2(@, old, new) ELSE @,
                    !.log = Append(@, <<"dup2", old, new, Dup2Ok(st, old, bad)>>)] :
         st \in {st0}})

DoClose(st0, fd) ==
    The({[st EXCEPT !.fds = Close(@, fd), !.log = Append(@, <<"close", fd>>)] :
         st \in {st0}})

\* if (s->in != NULL): open, dup2 onto stdin, close; exit(1) if either fails
InputPart(s, st0, bad) ==
    IF s.in = NULL THEN [st |-> st0, exit |-> FALSE]
    ELSE The({IF st1.fd = -1 THEN [st |-> st1, exit |-> TRUE]
              ELSE IF ~Dup2Ok(st1, st1.fd, bad = "dup2_in")
              THEN [st |-> DoDup2(st1, st1.fd, STDIN_FILENO, TRUE), exit |-> TRUE]
              ELSE [st |-> DoClose(DoDup2(st1, st1.fd, STDIN_FILENO, FALSE), st1.fd),
                    exit |-> FALSE] :
              st1 \in {DoOpen(st0, s.in, "O_RDONLY", bad = "open_in")}})

\* the flags of both opens: append if io_flags has an append bit, else truncate
OutputFlags(s) ==
    IF s.io_flags \cap {"IO_OUT_APPEND", "IO_ERR_APPEND"} # {} THEN "O_APPEND" ELSE "O_TRUNC"

\* closes that do not test for an aliased descriptor
CloseBoth(st4, out_fd, err_fd) ==
    The({IF err_fd # -1 THEN DoClose(st5, err_fd) ELSE st5 :
         st5 \in {IF out_fd # -1 THEN DoClose(st4, out_fd) ELSE st4}})

\* the two closes at the end, given out_fd and err_fd
CloseTemporaries(st4, out_fd, err_fd) ==
    The({IF err_fd # -1 THEN DoClose(st5, err_fd) ELSE st5 :
         st5 \in {IF out_fd # -1 /\ out_fd # err_fd THEN DoClose(st4, out_fd) ELSE st4}})

\* the error target: the descriptor of the output target if the paths are the
\* same, else a second open; then dup2 onto stderr
ErrorTarget(s, st2, out_fd, bad) ==
    IF s.err = NULL THEN [st2 EXCEPT !.fd = -1]
    ELSE The({DoDup2(st3, st3.fd, STDERR_FILENO, bad = "dup2_err") :
              st3 \in {IF s.out # NULL /\ s.out = s.err THEN [st2 EXCEPT !.fd = out_fd]
                       ELSE DoOpen(st2, s.err, OutputFlags(s), bad = "open_err")}})

\* if (s->out != NULL || s->err != NULL): no result is checked here
OutputPart(s, st0, bad) ==
    IF s.out = NULL /\ s.err = NULL THEN st0
    ELSE The({The({The({CloseTemporaries(st4, st1.fd, st4.fd) :
                        st4 \in {ErrorTarget(s, st2, st1.fd, bad)}}) :
                   st2 \in {DoDup2(st1, st1.fd, STDOUT_FILENO, bad = "dup2_out")}}) :
              st1 \in {DoOpen(st0, s.out, OutputFlags(s), bad = "open_out")}})

\* file_operations(s) on the table tbl and the files fls, the call bad failing:
\* the table, files and history afterwards, and whether it called exit(1)
FileOperations(s, tbl, fls, bad) ==
    The({IF i.exit THEN [fds |-> i.st.fds, files |-> i.st.files, log |-> i.st.log,
                         exit |-> TRUE]
         ELSE The({[fds |-> o.fds, files |-> o.files, log |-> o.log, exit |-> FALSE] :
                   o \in {OutputPart(s, i.st, bad)}}) :
         i \in {InputPart(s, IoState(tbl, fls), bad)}})

\* a child that leaves the switch after a failed execvp and returns 0
ExecFailedBreaks(q) ==
    /\ stack' = SetTop(q, [Top(q) EXCEPT !.result = 0, !.pc = "return"])
    /\ UNCHANGED <<procVars, fdt, pipes>>

\* get_argv gave NULL or execvp returned -1: exit(EXIT_FAILURE)
ExecFailed(q) == Terminate(q, Exited(EXIT_FAILURE))

\* parse_simple_external, child: file_operations, then build argv and replace
\* the image, or exit(EXIT_FAILURE).  A program that does no input or output
\* runs to its end within this step: nothing of it but its wait status is seen
\* by anyone.
ParseSimpleExternalChild(q) ==
    /\ At(q, "ext_child")
    /\ UNCHANGED nproc
    /\ \E bad \in Failures(IoCalls(Top(q).c) \cup {"execvp"}) :
         \E r \in {FileOperations(Top(q).c, fdt[q], files, bad)} :
             /\ files' = r.files
             /\ IF r.exit
                THEN /\ Terminate(q, Exited(1))
                     /\ faults' = IF bad = "none" THEN faults ELSE Fault
                ELSE IF bad = "execvp"
                THEN /\ ExecFailed(q)
                     /\ faults' = Fault
                ELSE IF Top(q).c.verb = "prog"
                THEN \E ws \in (IF bad = "none" THEN ProgramEnds ELSE {Exited(0), Exited(1)}) :
                       /\ Terminate(q, ws)
                       /\ faults' = IF WIFEXITED(ws) /\ bad = "none" THEN faults ELSE Fault
                ELSE /\ stack' = [stack EXCEPT ![q] = <<[Frame(Top(q).c) EXCEPT
                                                         !.pc = "main", !.log = r.log]>>]
                     /\ fdt' = [fdt EXCEPT ![q] = r.fds]
                     /\ pipes' = Sweep(fdt', pipes)
                     /\ faults' = IF bad = "none" THEN faults ELSE Fault
                     /\ UNCHANGED procVars
    /\ UNCHANGED opsLeft

\* parse_simple_external, parent: wait for the child and map its status
ParseSimpleExternalWait(p) ==
    /\ At(p, "ext_wait")
    /\ UNCHANGED nproc
    /\ \E q \in WaitOutcomes(p, Top(p).pid1) :
         IF q = -1
         THEN /\ stack' = SetTop(p, [Top(p) EXCEPT !.result = -1, !.err = TRUE,
                                        !.pc = "return"])
              /\ faults' = Fault
              /\ UNCHANGED procVars
         ELSE /\ Reap(p, q, [Top(p) EXCEPT !.state = wstatus[q],
                                        !.reaped = @ \cup {Ended(q)},
                                        !.result = ExternalStatus(wstatus[q]),
                                        !.pc = "return"])
              /\ UNCHANGED faults
    /\ UNCHANGED <<ioVars, opsLeft>>

(************************ the built-ins cd and pwd ***************************)
\* fcntl(fd, F_DUPFD, min): -1, or the lowest free descriptor from min on
DupFd(tbl, fd, min, bad) ==
    LET free == {g \in FreeFds(tbl) : g >= min}
    IN  IF bad \/ tbl[fd] = NoFile \/ free = {} THEN [fds |-> tbl, fd |-> -1]
        ELSE LET g == CHOOSE g \in free : \A h \in free : g <= h
             IN  [fds |-> [tbl EXCEPT ![g] = tbl[fd]], fd |-> g]

\* int out = fcntl(STDOUT_FILENO, ...); int err = fcntl(STDERR_FILENO, ...)
SaveStd(tbl, bad) ==
    The({The({[fds |-> e.fds, out |-> o.fd, err |-> e.fd] :
              e \in {DupFd(o.fds, STDERR_FILENO, STDERR_FILENO, bad = "fcntl_err")}}) :
         o \in {DupFd(tbl, STDOUT_FILENO, STDOUT_FILENO, bad = "fcntl_out")}})

\* a built-in that returns with its redirections still in place
RestoreNothing(tbl, out, err, bad) == [fds |-> tbl, exit |-> FALSE]

\* dup2(out, STDOUT_FILENO), dup2(err, STDERR_FILENO): exit(1) if one fails.
\* Neither duplicate is closed.
RestoreStd(tbl, out, err, bad) ==
    IF ~(bad # "dup2_out_back" /\ out \in Fds /\ tbl[out] # NoFile)
    THEN [fds |-> tbl, exit |-> TRUE]
    ELSE LET t == Dup2(tbl, out, STDOUT_FILENO)
         IN  IF ~(bad # "dup2_err_back" /\ err \in Fds /\ t[err] # NoFile)
             THEN [fds |-> t, exit |-> TRUE]
             ELSE [fds |-> Dup2(t, err, STDERR_FILENO), exit |-> FALSE]

\* the name the kernel resolves: repeated and trailing slashes do not count
RECURSIVE Canon(_)
Canon(path) ==
    IF Len(path) <= 1 THEN path
    ELSE IF path[1] = "/" /\ path[2] = "/" THEN Canon(Tail(path))
    ELSE IF Len(path) = 2 /\ path[2] = "/" THEN <<path[1]>>
    ELSE <<path[1]>> \o Canon(Tail(path))

\* chdir(path): fails if the path (with its terminator) does not fit in
\* PATH_MAX or names no directory
Chdir(path, wd, bad) ==
    IF ~bad /\ Len(path) < PATH_MAX /\ Canon(path) \in Dirs
    THEN [ok |-> TRUE, cwd |-> Canon(path)]
    ELSE [ok |-> FALSE, cwd |-> wd]

\* getcwd(NULL, PATH_MAX): NULL if the directory's name does not fit
GetcwdOk(wd, bad) == ~bad /\ Len(wd) < PATH_MAX

\* a cd that takes every parameter for an absolute path
CdAsGiven(dir, wd, bad) ==
    IF dir = <<>> THEN [ok |-> TRUE, cwd |-> wd] ELSE Chdir(dir, wd, bad = "chdir")

\* shell_cd(dir) in working directory wd; no parameter is dir = <<>>
shell_cd(dir, wd, bad) ==
    IF dir = <<>> THEN [ok |-> TRUE, cwd |-> wd]
    ELSE IF dir[1] = "/" THEN Chdir(dir, wd, bad = "chdir")
    ELSE IF ~GetcwdOk(wd, bad = "getcwd") THEN [ok |-> FALSE, cwd |-> wd]
    ELSE IF Len(wd) + Len(dir) + 1 >= PATH_MAX THEN [ok |-> FALSE, cwd |-> wd]
    ELSE Chdir(wd \o <<"/">> \o dir, wd, bad = "chdir")

\* the calls of a built-in that may fail for want of resources
BuiltinCalls(s) ==
    {"fcntl_out", "fcntl_err", "dup2_out_back", "dup2_err_back"} \cup IoCalls(s)

\* parse_simple_cd_case: save stdout and stderr, file_operations, restore,
\* shell_cd.  The process exits if file_operations or the restore does.
ParseSimpleCd(p) ==
    /\ At(p, "entry")
    /\ \E n \in {m \in ReadNode(Top(p).c) : m.op = OP_NONE /\ m.verb = "cd"} :
       \E bad \in Failures(BuiltinCalls(n) \cup {"chdir", "getcwd"}) :
         \E saved \in {SaveStd(fdt[p], bad)} :
         \E r \in {FileOperations(n, saved.fds, files, bad)} :
         \E back \in {RestoreStd(r.fds, saved.out, saved.err, bad)} :
         \E cd \in {shell_cd(n.arg, cwd[p], bad)} :
             /\ files' = r.files
             /\ faults' = IF bad = "none" THEN faults ELSE Fault
             /\ IF r.exit \/ back.exit
                THEN Terminate(p, Exited(1))
                ELSE /\ stack' = SetTop(p, [Top(p) EXCEPT
                            !.c = n, !.out = saved.out, !.err2 = saved.err,
                            !.log = r.log, !.fds0 = fdt[p], !.cwd0 = cwd[p],
                            !.result = IF cd.ok THEN 0 ELSE -1, !.pc = "return"])
                     /\ fdt' = [fdt EXCEPT ![p] = back.fds]
                     /\ pipes' = Sweep(fdt', pipes)
                     /\ cwd' = [cwd EXCEPT ![p] = cd.cwd]
                     /\ UNCHANGED <<pstate, ppid, wstatus, anc>>
    /\ UNCHANGED <<opsLeft, nproc>>

\* parse_simple_pwd_case: save stdout and stderr, file_operations, getcwd
ParseSimplePwd(p) ==
    /\ At(p, "entry")
    /\ \E n \in {m \in ReadNode(Top(p).c) : m.op = OP_NONE /\ m.verb = "pwd"} :
       \E bad \in Failures({"fcntl_out", "fcntl_err", "getcwd"} \cup IoCalls(n)) :
         \E saved \in {SaveStd(fdt[p], bad)} :
         \E r \in {FileOperations(n, saved.fds, files, bad)} :
             /\ files' = r.files
             /\ faults' = IF bad = "none" THEN faults ELSE Fault
             /\ IF r.exit
                THEN Terminate(p, Exited(1))
                ELSE /\ stack' = SetTop(p, [Top(p) EXCEPT
                            !.c = n, !.out = saved.out, !.err2 = saved.err,
                            !.log = r.log, !.fds0 = fdt[p], !.cwd0 = cwd[p],
                            !.path = IF GetcwdOk(cwd[p], bad = "getcwd") THEN cwd[p]
                                     ELSE <<NULL>>,
                            !.pc = "pwd_print"])
                     /\ fdt' = [fdt EXCEPT ![p] = r.fds]
                     /\ pipes' = Sweep(fdt', pipes)
                     /\ UNCHANGED procVars
    /\ UNCHANGED <<opsLeft, nproc>>

\* what dprintf(STDOUT_FILENO, "%s\n", path) writes
PwdLine(path) == path \o <<"\n">>

\* parse_simple_pwd_case: dprintf to stdout (nothing is written to a closed
\* descriptor or one not open for writing; a line for a pipe waits for room
\* and needs a reader), then restore stdout and stderr and return 0.  Printing
\* a NULL path is undefined: "(null)" is printed, or the process dies (SIGSEGV).
PwdPrint(p) ==
    /\ At(p, "pwd_print")
    /\ LET t == fdt[p][STDOUT_FILENO]
           f == Top(p)
       IN  /\ ~(t.k = "w" /\ HasReader(t.n) /\ Len(pipes[t.n]) >= PipeCap)
           /\ \E bad \in Failures({"dup2_out_back", "dup2_err_back"}),
                 crash \in (IF f.path = <<NULL>> THEN {TRUE, FALSE} ELSE {FALSE}) :
                \E back \in {RestoreStd(fdt[p], f.out, f.err2, bad)} :
                    /\ faults' = IF bad = "none" THEN faults ELSE Fault
                    /\ files' = IF t.k \in FileNames /\ ~crash
                                THEN [files EXCEPT ![t.k] = @ \o PwdLine(f.path)]
                                ELSE files
                    /\ IF crash THEN Terminate(p, Signaled(11))
                       ELSE IF t.k = "w" /\ ~HasReader(t.n) THEN Terminate(p, Signaled(13))
                       ELSE IF back.exit THEN Terminate(p, Exited(1))
                       ELSE /\ stack' = SetTop(p, [f EXCEPT !.result = 0, !.pc = "return"])
                            /\ fdt' = [fdt EXCEPT ![p] = back.fds]
                            /\ pipes' = IF t.k = "w"
                                        THEN Sweep(fdt', [pipes EXCEPT ![t.n] = @ \o PwdLine(f.path)])
                                        ELSE Sweep(fdt', pipes)
                            /\ UNCHANGED procVars
    /\ UNCHANGED <<opsLeft, nproc>>

(************************ parse_command: ; && || ***************************)
\* call parse_command(c) from the frame on top, which continues as f
Call(p, f, c) == [stack EXCEPT ![p] = Below(p) \o <<f, Frame(c)>>]

\* case OP_SEQUENTIAL: parse_command(c->cmd1, ...)
Sequential(p) ==
    /\ At(p, "entry")
    /\ UNCHANGED nproc
    /\ \E n \in ReadNode(Top(p).c) :
         /\ n.op = OP_SEQUENTIAL
         /\ stack' = Call(p, [Top(p) EXCEPT !.c = n, !.pc = "seq1"], n.cmd1)
         /\ opsLeft' = Spend(Top(p).c, n)
    /\ UNCHANGED <<procVars, ioVars, faults>>

\* case OP_SEQUENTIAL: parse_command(c->cmd2, ...)
SequentialSecond(p) ==
    /\ Returned(p, "seq1")
    /\ UNCHANGED nproc
    /\ stack' = PopCall(p, [Logged(Caller(p), 1, Top(p).result) EXCEPT !.pc = "seq2"],
                        Caller(p).c.cmd2)
    /\ UNCHANGED <<procVars, ioVars, opsLeft, faults>>

\* what parse_command returns after the switch, given the status of cmd2
SequentialResult(r2) == 0

\* case OP_SEQUENTIAL: break, then the return after the switch
SequentialBreak(p) ==
    /\ Returned(p, "seq2")
    /\ UNCHANGED nproc
    /\ stack' = PopTo(p, [Logged(Caller(p), 2, Top(p).result) EXCEPT
                             !.result = SequentialResult(Top(p).result),
                             !.pc = "return"])
    /\ UNCHANGED <<procVars, ioVars, opsLeft, faults>>

\* the tests that decide whether cmd2 is evaluated
\* variants of the two tests that run cmd2 whatever cmd1 returned
NZeroRunsAlways(ret1) == TRUE
ZeroRunsAlways(ret1) == TRUE
NZeroRunsSecond(ret1) == ret1 # 0
ZeroRunsSecond(ret1) == ret1 = 0
RunsSecond(op, ret1) ==
    IF op = OP_CONDITIONAL_NZERO THEN NZeroRunsSecond(ret1) ELSE ZeroRunsSecond(ret1)

\* case OP_CONDITIONAL_NZERO, OP_CONDITIONAL_ZERO: ret1 = parse_command(c->cmd1, ...)
Conditional(p) ==
    /\ At(p, "entry")
    /\ UNCHANGED nproc
    /\ \E n \in ReadNode(Top(p).c) :
         /\ n.op \in {OP_CONDITIONAL_NZERO, OP_CONDITIONAL_ZERO}
         /\ stack' = Call(p, [Top(p) EXCEPT !.c = n, !.pc = "cond1"], n.cmd1)
         /\ opsLeft' = Spend(Top(p).c, n)
    /\ UNCHANGED <<procVars, ioVars, faults>>

\* the test on ret1: return parse_command(c->cmd2, ...), or return ret1
ConditionalTest(p) ==
    /\ Returned(p, "cond1")
    /\ UNCHANGED nproc
    /\ LET f == [Logged(Caller(p), 1, Top(p).result) EXCEPT !.ret1 = Top(p).result]
       IN  IF RunsSecond(f.c.op, f.ret1)
           THEN stack' = PopCall(p, [f EXCEPT !.pc = "cond2"], f.c.cmd2)
           ELSE stack' = PopTo(p, [f EXCEPT !.result = f.ret1, !.pc = "return"])
    /\ UNCHANGED <<procVars, ioVars, opsLeft, faults>>

\* return parse_command(c->cmd2, ...)
ConditionalSecond(p) ==
    /\ Returned(p, "cond2")
    /\ UNCHANGED nproc
    /\ stack' = PopTo(p, [Logged(Caller(p), 2, Top(p).result) EXCEPT
                             !.result = Top(p).result, !.pc = "return"])
    /\ UNCHANGED <<procVars, ioVars, opsLeft, faults>>

(************************ run_in_parallel **********************************)
\* case OP_PARALLEL: what parse_command returns (break, then the return after
\* the switch), given what run_in_parallel returned
ParallelResult(ok) == 0

\* pid1 = fork(); the child evaluates cmd1 and exits with its status
RunInParallel(p) ==
    /\ At(p, "entry")
    /\ UNCHANGED nproc
    /\ \E n \in ReadNode(Top(p).c), q \in ForkOutcomes :
         /\ n.op = OP_PARALLEL
         /\ opsLeft' = Spend(Top(p).c, n)
         /\ IF q = -1
            THEN /\ stack' = SetTop(p, [Top(p) EXCEPT !.c = n, !.pid1 = -1, !.err = TRUE,
                                           !.ok = FALSE,
                                           !.result = ParallelResult(FALSE),
                                           !.pc = "return"])
                 /\ faults' = Fault
                 /\ UNCHANGED <<procVars, fdt, pipes>>
            ELSE /\ Spawn(p, q,
                       Append(Below(p), [Top(p) EXCEPT !.c = n, !.pid1 = q,
                                            !.kids = {q}, !.pc = "rip_fork2"]),
                       Below(p) \o <<[ChildFrame(Top(p)) EXCEPT !.c = n, !.pid1 = 0,
                                         !.pc = "rip_exit"],
                                     Frame(n.cmd1)>>)
                 /\ UNCHANGED faults
    /\ UNCHANGED files

\* pid2 = fork(); the child evaluates cmd2 and exits with its status
RunInParallelFork2(p) ==
    /\ At(p, "rip_fork2")
    /\ UNCHANGED nproc
    /\ \E q \in ForkOutcomes :
         IF q = -1
         THEN /\ stack' = SetTop(p, [Top(p) EXCEPT !.pid2 = -1, !.err = TRUE, !.ok = FALSE,
                                        !.result = ParallelResult(FALSE),
                                        !.pc = "return"])
              /\ faults' = Fault
              /\ UNCHANGED <<procVars, fdt, pipes>>
         ELSE /\ Spawn(p, q,
                    Append(Below(p), [Top(p) EXCEPT !.pid2 = q, !.kids = @ \cup {q},
                                         !.pc = "rip_wait1"]),
                    Below(p) \o <<[ChildFrame(Top(p)) EXCEPT !.pid2 = 0,
                                      !.pc = "rip_exit"],
                                  Frame(Top(p).c.cmd2)>>)
              /\ UNCHANGED faults
    /\ UNCHANGED <<files, opsLeft>>

\* exit(parse_command(cmd, level + 1, father)) in either child
RunInParallelExit(q) ==
    /\ Returned(q, "rip_exit")
    /\ UNCHANGED nproc
    /\ Terminate(q, Exited(Top(q).result))
    /\ UNCHANGED <<files, opsLeft, faults>>

\* waitpid(pid1, &status1, 0)
RunInParallelWait1(p) ==
    /\ At(p, "rip_wait1")
    /\ UNCHANGED nproc
    /\ \E q \in WaitOutcomes(p, Top(p).pid1) :
         IF q = -1
         THEN /\ stack' = SetTop(p, [Top(p) EXCEPT !.ok = FALSE, !.err = TRUE,
                                        !.result = ParallelResult(FALSE),
                                        !.pc = "return"])
              /\ faults' = Fault
              /\ UNCHANGED procVars
         ELSE /\ Reap(p, q, [Top(p) EXCEPT !.status1 = wstatus[q],
                                        !.reaped = @ \cup {Ended(q)}, !.pc = "rip_wait2"])
              /\ UNCHANGED faults
    /\ UNCHANGED <<ioVars, opsLeft>>

\* the value run_in_parallel returns once both waits succeeded
BothSucceeded(status1, status2) ==
    IF WIFEXITED(status1) /\ WIFEXITED(status2)
    THEN WSTOPSIG(status1) = 0 /\ WSTOPSIG(status2) = 0
    ELSE FALSE

\* waitpid(pid2, &status2, 0) and the return value
RunInParallelWait2(p) ==
    /\ At(p, "rip_wait2")
    /\ UNCHANGED nproc
    /\ \E q \in WaitOutcomes(p, Top(p).pid2) :
         IF q = -1
         THEN /\ stack' = SetTop(p, [Top(p) EXCEPT !.ok = FALSE, !.err = TRUE,
                                        !.result = ParallelResult(FALSE),
                                        !.pc = "return"])
              /\ faults' = Fault
              /\ UNCHANGED procVars
         ELSE /\ Reap(p, q, [Top(p) EXCEPT !.status2 = wstatus[q],
                                        !.reaped = @ \cup {Ended(q)},
                                        !.ok = BothSucceeded(Top(p).status1, wstatus[q]),
                                        !.result = ParallelResult(
                                            BothSucceeded(Top(p).status1, wstatus[q])),
                                        !.pc = "return"])
              /\ UNCHANGED faults
    /\ UNCHANGED <<ioVars, opsLeft>>

(************************ run_on_pipe **************************************)
\* case OP_PIPE: what parse_command returns, given what run_on_pipe returned
PipeResult(ok) == IF ~ok THEN 0 ELSE 1

\* pipe(pipefd) succeeds when two descriptors and a pipe are to be had
CanPipe(p) == Cardinality(FreeFds(fdt[p])) >= 2 /\ FreePipes # {}
NewPipe == CHOOSE id \in FreePipes : \A j \in FreePipes : id <= j
NewPipeFds(tbl) ==
    LET r == LowestFree(tbl)
        w == LowestFree([tbl EXCEPT ![r] = Tty])
    IN  <<r, w>>

\* pipe(pipefd)
RunOnPipe(p) ==
    /\ At(p, "entry")
    /\ UNCHANGED nproc
    /\ \E n \in ReadNode(Top(p).c), ok \in CallOutcomes :
         /\ n.op = OP_PIPE
         /\ opsLeft' = Spend(Top(p).c, n)
         /\ IF ok /\ CanPipe(p)
            THEN LET pfd == NewPipeFds(fdt[p])
                 IN  /\ fdt' = [fdt EXCEPT ![p] = [@ EXCEPT
                                   ![pfd[READ + 1]] = PipeEnd(READ, NewPipe),
                                   ![pfd[WRITE + 1]] = PipeEnd(WRITE, NewPipe)]]
                     /\ stack' = SetTop(p, [Top(p) EXCEPT !.c = n, !.pipefd = pfd,
                                               !.pc = "rop_fork1"])
                     /\ UNCHANGED faults
            ELSE /\ stack' = SetTop(p, [Top(p) EXCEPT !.c = n, !.ok = FALSE, !.err = TRUE,
                                           !.result = PipeResult(FALSE),
                                           !.pc = "return"])
                 /\ faults' = Fault
                 /\ UNCHANGED fdt
    /\ UNCHANGED <<procVars, pipes, files>>

\* pid1 = fork(), not tested for -1
RunOnPipeFork1(p) ==
    /\ At(p, "rop_fork1")
    /\ UNCHANGED nproc
    /\ \E q \in ForkOutcomes :
         IF q = -1
         THEN /\ stack' = SetTop(p, [Top(p) EXCEPT !.pid1 = -1, !.err = TRUE, !.pc = "rop_fork2"])
              /\ faults' = Fault
              /\ UNCHANGED <<procVars, fdt, pipes>>
         ELSE /\ Spawn(p, q,
                    Append(Below(p), [Top(p) EXCEPT !.pid1 = q, !.kids = {q},
                                         !.pc = "rop_fork2"]),
                    Append(Below(p), [ChildFrame(Top(p)) EXCEPT !.pid1 = 0,
                                         !.pc = "rop_child1"]))
              /\ UNCHANGED faults
    /\ UNCHANGED <<files, opsLeft>>

\* pid2 = fork(), not tested for -1
RunOnPipeFork2(p) ==
    /\ At(p, "rop_fork2")
    /\ UNCHANGED nproc
    /\ \E q \in ForkOutcomes :
         IF q = -1
         THEN /\ stack' = SetTop(p, [Top(p) EXCEPT !.pid2 = -1, !.err = TRUE, !.pc = "rop_close"])
              /\ faults' = Fault
              /\ UNCHANGED <<procVars, fdt, pipes>>
         ELSE /\ Spawn(p, q,
                    Append(Below(p), [Top(p) EXCEPT !.pid2 = q, !.kids = @ \cup {q},
                                         !.pc = "rop_close"]),
                    Append(Below(p), [ChildFrame(Top(p)) EXCEPT !.pid2 = 0,
                                         !.pc = "rop_child2"]))
              /\ UNCHANGED faults
    /\ UNCHANGED <<files, opsLeft>>

\* the descriptor tables the three processes go on with
\* a variant of the parent's two close calls that leaves the write end open
ParentKeepsWrite(tbl, pipefd) == Close(tbl, pipefd[READ + 1])
\* a variant of the consumer's descriptors that leaves stdin as it was
ConsumerKeepsStdin(tbl, pipefd) == Close(tbl, pipefd[WRITE + 1])
\* a consumer that does not close the write end
ConsumerKeepsWrite(tbl, pipefd) == Dup2(tbl, pipefd[READ + 1], STDIN_FILENO)
ProducerFds(tbl, pipefd) ==
    Dup2(Close(tbl, pipefd[READ + 1]), pipefd[WRITE + 1], STDOUT_FILENO)
ConsumerFds(tbl, pipefd) ==
    Dup2(Close(tbl, pipefd[WRITE + 1]), pipefd[READ + 1], STDIN_FILENO)
ParentFds(tbl, pipefd) ==
    Close(Close(tbl, pipefd[READ + 1]), pipefd[WRITE + 1])

\* the child of the first fork: close the read end, dup2 the write end onto
\* stdout (exit(1) if that fails), evaluate cmd1
RunOnPipeChild1(q) ==
    /\ At(q, "rop_child1")
    /\ UNCHANGED nproc
    /\ \E ok \in CallOutcomes :
         IF ok
         THEN /\ fdt' = [fdt EXCEPT ![q] = ProducerFds(@, Top(q).pipefd)]
              /\ pipes' = Sweep(fdt', pipes)
              /\ stack' = Call(q, [Top(q) EXCEPT !.pc = "rop_exit"], Top(q).c.cmd1)
              /\ UNCHANGED <<procVars, faults>>
         ELSE /\ Terminate(q, Exited(1))
              /\ faults' = Fault
    /\ UNCHANGED <<files, opsLeft>>

\* the child of the second fork: close the write end, dup2 the read end onto
\* stdin (exit(1) if that fails), evaluate cmd2
RunOnPipeChild2(q) ==
    /\ At(q, "rop_child2")
    /\ UNCHANGED nproc
    /\ \E ok \in CallOutcomes :
         IF ok
         THEN /\ fdt' = [fdt EXCEPT ![q] = ConsumerFds(@, Top(q).pipefd)]
              /\ pipes' = Sweep(fdt', pipes)
              /\ stack' = Call(q, [Top(q) EXCEPT !.pc = "rop_exit"], Top(q).c.cmd2)
              /\ UNCHANGED <<procVars, faults>>
         ELSE /\ Terminate(q, Exited(1))
              /\ faults' = Fault
    /\ UNCHANGED <<files, opsLeft>>

\* the exit code of a pipe child: !parse_command(...)
PipeChildCode(result) == IF result = 0 THEN 1 ELSE 0

\* exit(!parse_command(cmd, level, father)) in either child
RunOnPipeExit(q) ==
    /\ Returned(q, "rop_exit")
    /\ UNCHANGED nproc
    /\ Terminate(q, Exited(PipeChildCode(Top(q).result)))
    /\ UNCHANGED <<files, opsLeft, faults>>

\* close(pipefd[READ]); close(pipefd[WRITE]) in the parent
RunOnPipeClose(p) ==
    /\ At(p, "rop_close")
    /\ UNCHANGED nproc
    /\ fdt' = [fdt EXCEPT ![p] = ParentFds(@, Top(p).pipefd)]
    /\ pipes' = Sweep(fdt', pipes)
    /\ stack' = SetTop(p, [Top(p) EXCEPT !.pc = "rop_wait1"])
    /\ UNCHANGED <<procVars, files, opsLeft, faults>>

\* waitpid(pid1, &state, 0)
RunOnPipeWait1(p) ==
    /\ At(p, "rop_wait1")
    /\ UNCHANGED nproc
    /\ \E q \in WaitOutcomes(p, Top(p).pid1) :
         IF q = -1
         THEN /\ stack' = SetTop(p, [Top(p) EXCEPT !.ok = FALSE, !.err = TRUE,
                                        !.result = PipeResult(FALSE),
                                        !.pc = "return"])
              /\ faults' = Fault
              /\ UNCHANGED procVars
         ELSE /\ Reap(p, q, [Top(p) EXCEPT !.state = wstatus[q],
                                        !.reaped = @ \cup {Ended(q)}, !.pc = "rop_wait2"])
              /\ UNCHANGED faults
    /\ UNCHANGED <<ioVars, opsLeft>>

\* the value run_on_pipe returns once both waits succeeded
ConsumerSucceeded(state) == ~(WIFSTOPPED(state) \/ WSTOPSIG(state) # 0)

\* waitpid(pid2, &state, 0) and the return value
RunOnPipeWait2(p) ==
    /\ At(p, "rop_wait2")
    /\ UNCHANGED nproc
    /\ \E q \in WaitOutcomes(p, Top(p).pid2) :
         IF q = -1
         THEN /\ stack' = SetTop(p, [Top(p) EXCEPT !.ok = FALSE, !.err = TRUE,
                                        !.result = PipeResult(FALSE),
                                        !.pc = "return"])
              /\ faults' = Fault
              /\ UNCHANGED procVars
         ELSE /\ Reap(p, q, [Top(p) EXCEPT !.state = wstatus[q],
                                        !.reaped = @ \cup {Ended(q)},
                                        !.ok = ConsumerSucceeded(wstatus[q]),
                                        !.result = PipeResult(ConsumerSucceeded(wstatus[q])),
                                        !.pc = "return"])
              /\ UNCHANGED faults
    /\ UNCHANGED <<ioVars, opsLeft>>

(************************ the evaluator ************************************)
Next ==
    \E p \in Pids :
        \/ ParseSimple(p)
        \/ ParseSimpleExternal(p)
        \/ ParseSimpleExternalChild(p)
        \/ ParseSimpleExternalWait(p)
        \/ Sequential(p)
        \/ SequentialSecond(p)
        \/ SequentialBreak(p)
        \/ Conditional(p)
        \/ ConditionalTest(p)
        \/ ConditionalSecond(p)
        \/ RunInParallel(p)
        \/ RunInParallelFork2(p)
        \/ RunInParallelExit(p)
        \/ RunInParallelWait1(p)
        \/ RunInParallelWait2(p)
        \/ RunOnPipe(p)
        \/ RunOnPipeFork1(p)
        \/ RunOnPipeFork2(p)
        \/ RunOnPipeChild1(p)
        \/ RunOnPipeChild2(p)
        \/ RunOnPipeExit(p)
        \/ RunOnPipeClose(p)
        \/ RunOnPipeWait1(p)
        \/ RunOnPipeWait2(p)

Spec == Init /\ [][Next]_vars

(************************ a pipeline that moves data ***********************)
\* The scenario of the data-flow property: the tree (echo S | cat > f).  The
\* two programs are what execvp runs: echo writes its argument to stdout a
\* byte at a time, cat copies stdin to stdout until end of input.

\* write(STDOUT_FILENO, &b, 1) by the program q, which continues as f: it
\* blocks while the pipe is full, dies of SIGPIPE (13) if the pipe has no
\* reader, exits with status 1 if the descriptor is closed
Write(q, b, f) ==
    LET t == fdt[q][STDOUT_FILENO]
    IN  /\ ~(t.k = "w" /\ HasReader(t.n) /\ Len(pipes[t.n]) >= PipeCap)
        /\ IF t.k = "w" /\ ~HasReader(t.n)
           THEN Terminate(q, Signaled(13)) /\ UNCHANGED files
           ELSE IF t.k \in {"none", "r"}
           THEN Terminate(q, Exited(1)) /\ UNCHANGED files
           ELSE /\ stack' = SetTop(q, f)
                /\ pipes' = IF t.k = "w" THEN [pipes EXCEPT ![t.n] = Append(@, b)] ELSE pipes
                /\ files' = IF t.k \in FileNames THEN [files EXCEPT ![t.k] = Append(@, b)]
                            ELSE files
                /\ UNCHANGED <<procVars, fdt>>

IsProgram(q, verb) == At(q, "main") /\ Top(q).c.verb = verb

\* echo: write the next byte of the argument
EchoWrite(q) ==
    /\ IsProgram(q, "echo")
    /\ Top(q).io < Len(Top(q).c.arg)
    /\ Write(q, Top(q).c.arg[Top(q).io + 1], [Top(q) EXCEPT !.io = @ + 1])
    /\ UNCHANGED <<opsLeft, faults, nproc>>

\* echo: everything is written, exit(0)
EchoExit(q) ==
    /\ IsProgram(q, "echo")
    /\ Top(q).io = Len(Top(q).c.arg)
    /\ Terminate(q, Exited(0))
    /\ UNCHANGED <<files, opsLeft, faults, nproc>>

\* cat: read(STDIN_FILENO, &b, 1).  It blocks on an empty pipe that still has a
\* writer; end of input (an empty pipe without writer, the end of a file, the
\* terminal, which types nothing here) makes cat exit(0), a closed descriptor
\* makes it exit(1).
CatRead(q) ==
    /\ IsProgram(q, "cat")
    /\ Top(q).buf = <<>>
    /\ LET t == fdt[q][STDIN_FILENO]
       IN  IF t.k = "r" /\ pipes[t.n] # <<>>
           THEN /\ stack' = SetTop(q, [Top(q) EXCEPT !.buf = <<Head(pipes[t.n])>>])
                /\ pipes' = [pipes EXCEPT ![t.n] = Tail(@)]
                /\ UNCHANGED <<procVars, fdt>>
           ELSE IF t.k = "r"
           THEN ~HasWriter(t.n) /\ Terminate(q, Exited(0))
           ELSE IF t.k \in FileNames /\ Top(q).io < Len(files[t.k])
           THEN /\ stack' = SetTop(q, [Top(q) EXCEPT !.buf = <<files[t.k][Top(q).io + 1]>>,
                                                     !.io = @ + 1])
                /\ UNCHANGED <<procVars, fdt, pipes>>
           ELSE Terminate(q, Exited(IF t.k \in {"none", "w"} THEN 1 ELSE 0))
    /\ UNCHANGED <<files, opsLeft, faults, nproc>>

\* cat: write the byte it has read
CatWrite(q) ==
    /\ IsProgram(q, "cat")
    /\ Top(q).buf # <<>>
    /\ Write(q, Top(q).buf[1], [Top(q) EXCEPT !.buf = <<>>])
    /\ UNCHANGED <<opsLeft, faults, nproc>>

\* the byte sequences echo may be given, and what f may hold beforehand
Strings == UNION {[1 .. n -> Bytes] : n \in 0 .. MaxLen}
OldContents == {<<>>, <<"b">>}
PipeTree(S) == Node(OP_PIPE, Leaf("echo", S, NULL), Leaf("cat", <<>>, "f"))

\* the shell is about to evaluate (echo S | cat > f); five processes may exist
InitPipe ==
    /\ pstate = [p \in Pids |-> IF p = Shell THEN "run" ELSE "free"]
    /\ ppid = [p \in Pids |-> 0]
    /\ wstatus = [p \in Pids |-> 0]
    /\ \E S \in Strings :
         stack = [p \in Pids |-> IF p = Shell THEN <<Frame(PipeTree(S))>> ELSE <<>>]
    /\ fdt = [p \in Pids |-> IF p = Shell THEN StdFds ELSE NoFds]
    /\ pipes = [id \in PipeIds |-> <<>>]
    /\ \E old \in OldContents : files = [f \in FileNames |-> old]
    /\ opsLeft = 0
    /\ faults = 0
    /\ nproc = MaxProcs + 1
    /\ cwd = [p \in Pids |-> StartDir]
    /\ anc = [p \in Pids |-> {}]

\* a step of the process p in the evaluation of a pipe node
PipeStep(p) ==
    \/ ParseSimpleExternal(p)
    \/ ParseSimpleExternalChild(p)
    \/ ParseSimpleExternalWait(p)
    \/ RunOnPipe(p)
    \/ RunOnPipeFork1(p)
    \/ RunOnPipeFork2(p)
    \/ RunOnPipeChild1(p)
    \/ RunOnPipeChild2(p)
    \/ RunOnPipeExit(p)
    \/ RunOnPipeClose(p)
    \/ RunOnPipeWait1(p)
    \/ RunOnPipeWait2(p)
    \/ EchoWrite(p)
    \/ EchoExit(p)
    \/ CatRead(p)
    \/ CatWrite(p)

NextPipe == \E p \in Pids : PipeStep(p)

SpecPipe == InitPipe /\ [][NextPipe]_vars

\* The kernel's scheduler lets every process that can take a step take one:
\* a process that is not blocked in write, read or waitpid runs eventually.
SpecPipeFair == SpecPipe /\ \A p \in Pids : WF_vars(PipeStep(p))

(************************ simple commands with redirections *****************)
\* The shell evaluates one simple command: cd, pwd or a program, with any
\* redirections.  Earlier built-ins may have run: the shell may be in any
\* directory cd can reach, and its table may hold what they left behind, the
\* two duplicates of an earlier built-in and the input file of an earlier "<".
ShellDirs == {d \in Dirs : Len(d) + 2 < PATH_MAX}
ShellTables ==
    {StdFds, [StdFds EXCEPT ![STDERR_FILENO] = FileOf("g")],
     [StdFds EXCEPT ![3] = Tty, ![4] = Tty],
     [StdFds EXCEPT ![STDIN_FILENO] = FileOf("f"), ![3] = Tty, ![4] = Tty]}

InitLeaf ==
    /\ pstate = [p \in Pids |-> IF p = Shell THEN "run" ELSE "free"]
    /\ ppid = [p \in Pids |-> 0]
    /\ wstatus = [p \in Pids |-> 0]
    /\ \E n \in IoLeaves : stack = [p \in Pids |-> IF p = Shell THEN <<Frame(n)>> ELSE <<>>]
    /\ \E tbl \in ShellTables : fdt = [p \in Pids |-> IF p = Shell THEN tbl ELSE NoFds]
    /\ pipes = [id \in PipeIds |-> <<>>]
    /\ files = [f \in FileNames |-> <<"b">>]
    /\ opsLeft = 0
    /\ faults = 0
    /\ nproc = MaxProcs
    /\ \E d \in ShellDirs : cwd = [p \in Pids |-> IF p = Shell THEN d ELSE StartDir]
    /\ anc = [p \in Pids |-> {}]

NextLeaf ==
    \E p \in Pids :
        \/ ParseSimpleCd(p)
        \/ ParseSimplePwd(p)
        \/ PwdPrint(p)
        \/ ParseSimpleExternal(p)
        \/ ParseSimpleExternalChild(p)
        \/ ParseSimpleExternalWait(p)
        \/ EchoWrite(p)
        \/ EchoExit(p)

SpecLeaf == InitLeaf /\ [][NextLeaf]_vars

(************************ the claims ***************************************)
\* the processes whose parse_command call on a node of operator op has just
\* computed its return value
Returning(op) == {p \in Pids : At(p, "return") /\ Top(p).c.op = op}
\* the children that call evaluated, in order, and the status of the i-th
Order(f) == [i \in 1 .. Len(f.ev) |-> f.ev[i][1]]
StatusOf(f, i) == f.ev[i][2]
\* the wait status of a child that called exit(code)
NormalExit(ws) == \E code \in 0 .. 255 : ws = Exited(code)
\* the record of the child pid among those the call f reaped
ReapedAs(f, pid) == {r \in f.reaped : r.pid = pid}

\* C1: a node (A ; B) evaluates A once, then B once, and returns B's status.
\* The code returns 0 whatever B returned.
C1_SequentialReturnsSecond ==
    \A p \in Returning(OP_SEQUENTIAL) :
        /\ Order(Top(p)) = <<1, 2>>
        /\ Top(p).result = StatusOf(Top(p), 2)

\* C2: a node (A && B) evaluates A once, evaluates B (once, after A) if and only
\* if A returned 0, and returns A's status if that is nonzero, else B's status.
C2_ConditionalZero ==
    \A p \in Returning(OP_CONDITIONAL_ZERO) :
        LET f == Top(p)
        IN  /\ Order(f) \in {<<1>>, <<1, 2>>}
            /\ (Order(f) = <<1, 2>>) <=> (StatusOf(f, 1) = 0)
            /\ f.result = IF StatusOf(f, 1) # 0 THEN StatusOf(f, 1) ELSE StatusOf(f, 2)

\* C2 witness: an (A && B) has returned B's nonzero status after A returned 0
C2_Witness ==
    \E p \in Returning(OP_CONDITIONAL_ZERO) :
        /\ Order(Top(p)) = <<1, 2>>
        /\ Top(p).result # 0

\* C3: a node (A || B) evaluates A once, evaluates B (once, after A) if and only
\* if A returned nonzero, and returns A's status (0) if A succeeded, else B's.
C3_ConditionalNZero ==
    \A p \in Returning(OP_CONDITIONAL_NZERO) :
        LET f == Top(p)
        IN  /\ Order(f) \in {<<1>>, <<1, 2>>}
            /\ (Order(f) = <<1, 2>>) <=> (StatusOf(f, 1) # 0)
            /\ f.result = IF StatusOf(f, 1) = 0 THEN 0 ELSE StatusOf(f, 2)

\* C3 witness: an (A || B) has returned B's status 0 after A failed
C3_Witness ==
    \E p \in Returning(OP_CONDITIONAL_NZERO) :
        /\ Order(Top(p)) = <<1, 2>>
        /\ StatusOf(Top(p), 1) # 0
        /\ Top(p).result = 0

\* both children of the parallel call f were spawned, reaped, and had called exit(0)
BothExitedZero(f) ==
    /\ f.pid1 \in f.kids
    /\ f.pid2 \in f.kids
    /\ \E r \in ReapedAs(f, f.pid1) : r.ws = Exited(0)
    /\ \E r \in ReapedAs(f, f.pid2) : r.ws = Exited(0)

\* C4: a parallel node returns 0 if and only if both child processes ended
\* normally with exit status 0.  The code returns 0 in every case.
C4_ParallelStatus ==
    \A p \in Returning(OP_PARALLEL) :
        (Top(p).result = 0) <=> BothExitedZero(Top(p))

\* the consumer of the pipe call f was spawned and reaped, had ended by
\* exit(...) and its evaluation of B had returned 0
ConsumerEvaluatedZero(f) ==
    /\ f.pid2 \in f.kids
    /\ \E r \in ReapedAs(f, f.pid2) : NormalExit(r.ws) /\ r.evald /\ r.ret = 0

\* C5: a pipe node whose consumer child has been waited for returns 0 if and
\* only if that child ended normally and its evaluation of B returned 0.  A
\* consumer that exits because its dup2 failed also makes the code return 0.
C5_PipeStatus ==
    \A p \in Returning(OP_PIPE) :
        ReapedAs(Top(p), Top(p).pid2) # {} =>
            ((Top(p).result = 0) <=> ConsumerEvaluatedZero(Top(p)))

\* C6: the terminate sentinel goes up through ; && || in the shell process.
\* Stated for the child evaluated last, whose status the operator table hands
\* up: if it returned SHELL_EXIT, so does the node.  (A ; exit) returns 0.
C6_SentinelPropagates ==
    \A op \in {OP_SEQUENTIAL, OP_CONDITIONAL_ZERO, OP_CONDITIONAL_NZERO} :
        \A p \in Returning(op) :
            LET f == Top(p)
            IN  (p = Shell /\ StatusOf(f, Len(f.ev)) = SHELL_EXIT) => f.result = SHELL_EXIT

\* C7: a parallel or pipe node during whose evaluation pipe, fork or waitpid
\* failed returns a nonzero status.  The code returns 0.
C7_ResourceErrorIsFailure ==
    \A op \in {OP_PARALLEL, OP_PIPE} :
        \A p \in Returning(op) : Top(p).err => Top(p).result # 0

\* C8: when a parallel or pipe node returns, every child it spawned has been
\* waited for; two successful forks mean two children; and no child is waited
\* for before the second fork.  run_in_parallel returns without waiting for the
\* first child when the second fork fails.
C8_NoZombies ==
    /\ \A op \in {OP_PARALLEL, OP_PIPE} :
         \A p \in Returning(op) :
            LET f == Top(p)
            IN  /\ f.kids \subseteq {r.pid : r \in f.reaped}
                /\ (f.pid1 > 0 /\ f.pid2 > 0) => Cardinality(f.kids) = 2
    /\ \A p \in Pids :
         (Running(p) /\ Top(p).pc \in {"rip_fork2", "rop_fork1", "rop_fork2", "rop_close"})
            => Top(p).reaped = {}

\* the process p holds an end of a pipe at descriptor fd
HoldsEnd(p, fd) == fd \in Fds /\ fdt[p][fd].k \in {"r", "w"}
\* the process p is about to evaluate the subtree of a pipe child
Starts(p) == /\ pstate[p] = "run"
             /\ Len(stack[p]) >= 2
             /\ Top(p).pc = "entry"
             /\ Caller(p).pc = "rop_exit"

\* C9: in run_on_pipe both ends exist before either fork; the producer has
\* closed the read end and the consumer the write end when it starts to
\* evaluate its subtree; the parent holds neither end while it waits and when
\* run_on_pipe returns.
C9_PipeDescriptors ==
    /\ \A p \in Pids :
         (Running(p) /\ Top(p).pc \in {"rop_fork1", "rop_fork2", "rop_child1", "rop_child2"})
            => /\ fdt[p][Top(p).pipefd[READ + 1]].k = "r"
               /\ fdt[p][Top(p).pipefd[WRITE + 1]].k = "w"
               /\ fdt[p][Top(p).pipefd[READ + 1]].n = fdt[p][Top(p).pipefd[WRITE + 1]].n
    /\ \A p \in Pids :
         Starts(p) =>
            LET f == Caller(p)
            IN  IF f.pid1 = 0
                THEN /\ ~HoldsEnd(p, f.pipefd[READ + 1])
                     /\ ~Holds(fdt[p], PipeEnd(READ, fdt[p][STDOUT_FILENO].n))
                     /\ fdt[p][STDOUT_FILENO].k = "w"
                ELSE /\ ~HoldsEnd(p, f.pipefd[WRITE + 1])
                     /\ ~Holds(fdt[p], PipeEnd(WRITE, fdt[p][STDIN_FILENO].n))
                     /\ fdt[p][STDIN_FILENO].k = "r"
    /\ \A p \in Pids :
         (/\ Running(p)
          /\ Top(p).c.op = OP_PIPE
          /\ Top(p).pc \in {"rop_wait1", "rop_wait2", "return"})
            => /\ ~HoldsEnd(p, Top(p).pipefd[READ + 1])
               /\ ~HoldsEnd(p, Top(p).pipefd[WRITE + 1])

\* C9 witness: the shell has returned from a pipe node whose pipe was created
\* and whose two children were spawned and waited for
C9_Witness ==
    \E p \in Returning(OP_PIPE) :
        /\ p = Shell
        /\ Top(p).pipefd[READ + 1] \in Fds
        /\ Cardinality(Top(p).kids) = 2
        /\ Cardinality(Top(p).reaped) = 2

\* the argument of echo in the tree the shell evaluates
Sent == stack[Shell][1].c.cmd1.arg
\* parse_command has computed its return value for the root pipe node
PipeReturned == Len(stack[Shell]) = 1 /\ Shell \in Returning(OP_PIPE)

\* C10: when the evaluation of (echo S | cat > f) returns, f holds exactly S,
\* whatever the interleaving of the processes (in runs where no system call
\* failed for want of resources and no signal was sent from outside).
C10_PipeDataFlow ==
    (PipeReturned /\ faults = 0) => files["f"] = Sent

\* C10 witness: the evaluation has returned without any failure after echo
\* wrote a sequence of MaxLen bytes into a pipe that holds PipeCap of them
C10_Witness ==
    /\ PipeReturned
    /\ faults = 0
    /\ Len(Sent) = MaxLen
    /\ MaxLen > PipeCap
    /\ files["f"] = Sent


\* the processes whose image execvp has replaced by the program of their leaf
Executing == {q \in Pids : At(q, "main") /\ Top(q).c.verb \in {"echo", "cat"}}

\* every redirection the leaf c declares is the open file of its descriptor
Installed(c, tbl) ==
    /\ c.in # NULL => tbl[STDIN_FILENO] = FileOf(c.in)
    /\ c.out # NULL => tbl[STDOUT_FILENO] = FileOf(c.out)
    /\ c.err # NULL => tbl[STDERR_FILENO] = FileOf(c.err)

\* C11: a child of parse_simple_external whose redirection could not be set up
\* ends without reaching execvp: no program executes with a redirection that
\* its command declares and its descriptors do not have.
C11_RedirectionFailureIsFatal ==
    \A q \in Executing : Installed(Top(q).c, fdt[q])


\* C12: a cd or pwd leaf evaluated in the shell process that has a redirection
\* target which cannot be opened does not end the shell: as long as no call
\* fails for want of resources, the shell is still running after the step
\* that evaluates the leaf.
C12_BuiltinRedirectionKeepsShell ==
    [][(/\ At(Shell, "entry")
        /\ Top(Shell).c.verb \in BuiltinVerbs
        /\ NoEntry \in {Top(Shell).c.in, Top(Shell).c.out, Top(Shell).c.err}
        /\ faults' = faults)
          => pstate'[Shell] = "run"]_vars


\* the processes at the return of a cd or pwd leaf
BuiltinReturned == {p \in Returning(OP_NONE) : Top(p).c.verb \in BuiltinVerbs}

\* file_operations put the output target of the leaf on stdout
OutputInstalled(f) ==
    /\ f.c.out \in FileNames
    /\ \E i \in 1 .. Len(f.log) :
          f.log[i][1] = "dup2" /\ f.log[i][3] = STDOUT_FILENO /\ f.log[i][4]

IsSuffix(t, u) == Len(t) <= Len(u) /\ SubSeq(u, Len(u) - Len(t) + 1, Len(u)) = t

\* C13: when a cd or pwd leaf returns, descriptors 1 and 2 of the process refer
\* to the open files they referred to when the leaf began, whatever output and
\* error targets it declares; pwd prints its line while the output target is
\* on stdout, so that the line is the end of the target file.
C13_BuiltinRedirectionTransient ==
    /\ \A p \in BuiltinReturned :
          /\ fdt[p][STDOUT_FILENO] = Top(p).fds0[STDOUT_FILENO]
          /\ fdt[p][STDERR_FILENO] = Top(p).fds0[STDERR_FILENO]
          /\ (Top(p).c.verb = "pwd" /\ OutputInstalled(Top(p)))
                => IsSuffix(PwdLine(Top(p).path), files[Top(p).c.out])
    /\ \A p \in Pids :
          (At(p, "pwd_print") /\ OutputInstalled(Top(p)))
             => fdt[p][STDOUT_FILENO] = FileOf(Top(p).c.out)

\* C13 witness: the shell, whose stderr was a file, has returned from
\* (pwd > f 2> f) with its line in f and stdout and stderr as before
C13_Witness ==
    /\ Shell \in BuiltinReturned
    /\ Top(Shell).c.verb = "pwd" /\ Top(Shell).c.out = "f" /\ Top(Shell).c.err = "f"
    /\ Top(Shell).fds0[STDERR_FILENO] = FileOf("g")
    /\ Len(Top(Shell).log) = 4
    /\ files["f"] = PwdLine(cwd[Shell])
    /\ fdt[Shell][STDOUT_FILENO] = Tty /\ fdt[Shell][STDERR_FILENO] = FileOf("g")


\* the frames in which file_operations has run to its end on a leaf with both
\* an output and an error target
Redirected ==
    {f \in UNION {{stack[p][i] : i \in 1 .. Len(stack[p])} : p \in Pids} :
        /\ f.c.op = OP_NONE /\ f.pc \in {"main", "pwd_print", "return"}
        /\ f.c.out # NULL /\ f.c.err # NULL /\ f.log # <<>>}

\* the calls of the output part: those after the close of the input target
OutputLog(f) == IF f.c.in = NULL THEN f.log ELSE SubSeq(f.log, 4, Len(f.log))

\* the positions in log of the calls that are equal to one of the set calls
Calls(log, calls) == {i \in 1 .. Len(log) : log[i] \in calls}

\* the opens of path in log (with any result), those with the flags
OpensOf(log, path) == {i \in 1 .. Len(log) : log[i][1] = "open" /\ log[i][2] = path}
OpensWith(log, path, flags) == {i \in OpensOf(log, path) : log[i][4] = flags}

\* the open at position i of log is used once: if it gave the
\* descriptor fd, one dup2 of fd is made onto each of the descriptors std, and
\* after them fd is closed exactly once; if it failed, nothing is closed
UsedOnce(log, i, std) ==
    LET fd == log[i][3]
        dups == {j \in 1 .. Len(log) : log[j][1] = "dup2" /\ log[j][2] = fd}
        closes == Calls(log, {<<"close", fd>>})
    IN  IF fd = -1 THEN closes = {}
        ELSE /\ {log[j][3] : j \in dups} = std
             /\ Cardinality(dups) = Cardinality(std)
             /\ Cardinality(closes) = 1
             /\ \A j \in dups, k \in closes : i < j /\ j < k

\* C14: file_operations on a leaf whose output and error targets are the same
\* path opens the path once, puts that open file on descriptors 1 and 2, and
\* closes the temporary descriptor once; if they differ it opens each once, in
\* append mode if io_flags has an append bit and else truncating, puts each on
\* its descriptor and closes each temporary descriptor once.
C14_RedirectionAliasing ==
    \A f \in Redirected :
       LET log == OutputLog(f)
           out == OpensOf(log, f.c.out)
           err == OpensOf(log, f.c.err)
       IN  /\ Calls(log, {<<"open", f.c.in, fd, "O_RDONLY">> : fd \in Fds \cup {-1}}) = {}
           /\ out = OpensWith(log, f.c.out, OutputFlags(f.c))
           /\ err = OpensWith(log, f.c.err, OutputFlags(f.c))
           /\ Cardinality(out) = 1 /\ Cardinality(err) = 1
           /\ IF f.c.out = f.c.err
              THEN \A i \in out : UsedOnce(log, i, {STDOUT_FILENO, STDERR_FILENO})
              ELSE /\ \A i \in out : UsedOnce(log, i, {STDOUT_FILENO})
                   /\ \A i \in err : UsedOnce(log, i, {STDERR_FILENO})

\* C14 witness: a program runs after (echo a < f > g 2> g) with the error
\* append bit: g was opened once for appending, after the input target, and
\* is on descriptors 1 and 2
C14_Witness ==
    \E q \in Executing :
        /\ Top(q) \in Redirected
        /\ Top(q).c.in = "f" /\ Top(q).c.out = "g" /\ Top(q).c.err = "g"
        /\ Top(q).c.io_flags = {"IO_ERR_APPEND"}
        /\ OutputLog(Top(q)) = <<<<"open", "g", 3, "O_APPEND">>,
                                 <<"dup2", 3, STDOUT_FILENO, TRUE>>,
                                 <<"dup2", 3, STDERR_FILENO, TRUE>>,
                                 <<"close", 3>>>>
        /\ fdt[q][STDOUT_FILENO] = FileOf("g") /\ fdt[q][STDERR_FILENO] = FileOf("g")
        /\ fdt[q][3] = NoFile


\* the processes at the return of an external leaf whose fork succeeded
ExternalReturned == {p \in Returning(OP_NONE) : Top(p).pid1 > 0}

\* C15: when an external leaf whose fork succeeded returns, its child has
\* ended and been waited for, or waitpid failed; the status returned is the
\* child's exit code if it exited, and is not 0 if a signal ended it or
\* waitpid failed.
C15_ExternalStatus ==
    \A p \in ExternalReturned :
       LET f == Top(p)
       IN  IF f.err THEN f.reaped = {} /\ f.result # 0
           ELSE \E r \in f.reaped :
                  /\ f.reaped = {r} /\ r.pid = f.pid1 /\ f.state = r.ws
                  /\ \A code \in 0 .. 255 : r.ws = Exited(code) => f.result = code
                  /\ ~NormalExit(r.ws) => f.result # 0

\* C15 witness: the shell has returned 1 from an external leaf whose child
\* exited with code 1
C15_Witness ==
    /\ Shell \in ExternalReturned
    /\ Top(Shell).result = 1
    /\ \E r \in Top(Shell).reaped : r.pid = Top(Shell).pid1 /\ r.ws = Exited(1)


CdReturned == {p \in BuiltinReturned : Top(p).c.verb = "cd"}

\* the name cd makes for the parameter dir in the working directory wd
CdPath(dir, wd) == IF dir[1] = "/" THEN dir ELSE wd \o <<"/">> \o dir

\* the cd leaf c, evaluated in wd, has a target that is missing or too long
CdMustFail(c, wd) ==
    /\ c.arg # <<>>
    /\ \/ Canon(CdPath(c.arg, wd)) \notin Dirs
       \/ c.arg[1] # "/" /\ Len(wd) + Len(c.arg) + 1 >= PATH_MAX

\* C17: when a cd leaf returns: without a parameter it has returned 0 and the
\* working directory is as before; with a parameter whose target is missing
\* or too long when put after the working directory, it has returned a status
\* other than 0 and the working directory is as before; with any other
\* parameter it has either returned 0 and the working directory is the
\* target (for a relative sub: the old directory, "/", sub), or returned a
\* status other than 0 and left the directory.  A cd leaf without redirection
\* does not end the shell unless a call fails for want of resources.
C17_CdOutcome ==
    /\ [](\A p \in CdReturned :
            LET f == Top(p)
            IN  IF f.c.arg = <<>> THEN f.result = 0 /\ cwd[p] = f.cwd0
                ELSE IF CdMustFail(f.c, f.cwd0) THEN f.result # 0 /\ cwd[p] = f.cwd0
                ELSE \/ f.result = 0 /\ cwd[p] = Canon(CdPath(f.c.arg, f.cwd0))
                     \/ f.result # 0 /\ cwd[p] = f.cwd0 /\ faults > 0)
    /\ [][(/\ At(Shell, "entry") /\ Top(Shell).c.verb = "cd"
           /\ Top(Shell).c.in = NULL /\ faults' = faults)
             => Shell \in CdReturned']_vars

\* C17 witness: the shell, in /a, has returned 0 from (cd s) and is in /a/s
C17_Witness ==
    /\ Shell \in CdReturned
    /\ Top(Shell).c.arg = <<"s">> /\ Top(Shell).cwd0 = <<"/", "a">>
    /\ Top(Shell).result = 0
    /\ cwd[Shell] = <<"/", "a", "/", "s">>


\* the processes about to evaluate the right side of a ; && or || node
BeginsSecond ==
    {p \in Pids : /\ At(p, "entry") /\ Len(stack[p]) >= 2
                  /\ Caller(p).pc \in {"seq2", "cond2"}}

\* the processes that p or a descendant of p has forked and that still run
RunningDescendants(p) == {q \in Pids : pstate[q] = "run" /\ p \in anc[q]}

\* C18: when the evaluation of B begins in a node (A ; B), (A && B) or
\* (A || B), every process spawned during the evaluation of A has ended.
C18_HappensBefore ==
    \A p \in BeginsSecond : RunningDescendants(p) = {}


\* C19: under fair scheduling of the processes, the evaluation of a pipe node
\* (echo S | cat > f), whose producer ends after finitely many writes and
\* whose consumer ends when it reads end of input, eventually returns.
C19_PipeTerminates == <>PipeReturned

\* C19 witness: the evaluation has returned after both waits completed: the
\* producer wrote all of a longest S and the consumer has ended; no process
\* and no pipe is left
C19_Witness ==
    /\ PipeReturned
    /\ Len(Sent) = MaxLen
    /\ Cardinality(Top(Shell).reaped) = 2
    /\ ~Top(Shell).err
    /\ \A q \in Pids \ {Shell} : pstate[q] = "free"
    /\ \A id \in PipeIds : pipes[id] = <<>> /\ ~HasWriter(id) /\ ~HasReader(id)


\* C20: when a cd or pwd leaf returns, the descriptor table of the process is
\* as it was when the leaf began: the same descriptors are open and refer to
\* the same files, descriptor 0 included, and no saved duplicate or temporary
\* descriptor is left open.
C20_BuiltinKeepsDescriptors ==
    \A p \in BuiltinReturned : fdt[p] = Top(p).fds0

====
